---- MODULE Spec2Model ----
(***************************************************************************)
(* EduDRISHTI: the three scripts of the repository as one state machine.   *)
(*   master_data.py        marks aggregation, ratio features, master file  *)
(*   anomaly_detection.py  encoding, scaling, isolation forest, report     *)
(*   app.py                dashboard page listing the flagged centers      *)
(* The scripts hand their tables to one another through CSV files.         *)
(*                                                                         *)
(* Numbers: a float is a fixed-point integer in units of 1/Scale; a cell   *)
(* of a table is a record [k, v] with k in {"num", "nan", "inf"}.          *)
(***************************************************************************)
EXTENDS Integers, Sequences, FiniteSets, TLC

VARIABLES
    pc,               \* position in the pipeline
    err,              \* the exception that ended a script, "" if none
    df_marks,         \* master_data.py: the consolidated student records
    df_center_stats,  \* master_data.py: the per-center statistics sheet
    df_marks_agg,     \* master_data.py: per-center moments (after rounding)
    df_master,        \* master_data.py: the merged frame
    master_csv,       \* file data\NEET_Master_Analysis_Data.csv
    df_results,       \* anomaly_detection.py: master rows plus results
    df_ml,            \* anomaly_detection.py: the encoded feature frame
    X_features,       \* anomaly_detection.py: names of the scaled columns
    X_scaled,         \* anomaly_detection.py: the standardized matrix
    model,            \* anomaly_detection.py: the fitted forest
    df_anomalies,     \* anomaly_detection.py: flagged rows, sorted
    printed,          \* anomaly_detection.py: rows of the printed report
    ml_csv,           \* file data\NEET_Master_ML_Data.csv
    dash_table        \* app.py: rows shown by page_anomaly_detection

vars == <<pc, err, df_marks, df_center_stats, df_marks_agg, df_master,
          master_csv, df_results, df_ml, X_features, X_scaled, model,
          df_anomalies, printed, ml_csv, dash_table>>

-----------------------------------------------------------------------------
(* Bounds of the model *)

MaxStudents == 6     \* student records in a frame of SpecAgg
MaxCenters == 3      \* rows of the center statistics sheet in Spec
MaxRows == 16        \* rows of the predicted table in SpecReport
MaxBlock == 4        \* rows of the block a predicted table repeats

(* fixed-point unit: four decimal digits *)
Scale == 10 * 10 * 10 * 10
(* square roots are searched in 0..SqrtTop: values up to 4.0, squares below 2^31 *)
SqrtTop == 4 * Scale

-----------------------------------------------------------------------------
(* Cells *)

NaN == [k |-> "nan", v |-> 0]
Inf == [k |-> "inf", v |-> 0]
Num(x) == [k |-> "num", v |-> x]
IsNum(c) == c.k = "num"
IsNaN(c) == c.k = "nan"
IsInf(c) == c.k = "inf"

Abs(x) == IF x < 0 THEN -x ELSE x
Sgn(x) == IF x < 0 THEN -1 ELSE IF x > 0 THEN 1 ELSE 0

RECURSIVE SumSeq(_)
SumSeq(s) == IF s = <<>> THEN 0 ELSE Head(s) + SumSeq(Tail(s))

(* a/b <= c/d for a, c >= 0 and b, d > 0, by continued fractions: no *)
(* product of two large numbers is formed                            *)
RECURSIVE FracLeq(_, _, _, _)
FracLeq(a, b, c, d) ==
    LET qa == a \div b
        qc == c \div d
        ra == a % b
        rc == c % d
    IN  IF qa # qc THEN qa < qc
        ELSE IF ra = 0 THEN TRUE
        ELSE IF rc = 0 THEN FALSE
        ELSE FracLeq(d, rc, b, ra)

(* the largest v in lo..hi with (v/Scale)^2 <= num/den *)
RECURSIVE SqrtSearch(_, _, _, _)
SqrtSearch(lo, hi, num, den) ==
    IF lo >= hi THEN lo
    ELSE LET mid == (lo + hi + 1) \div 2
         IN  IF FracLeq(mid * mid, Scale * Scale, num, den)
             THEN SqrtSearch(mid, hi, num, den)
             ELSE SqrtSearch(lo, mid - 1, num, den)

(* sqrt(num/den) in units of 1/Scale, num >= 0, den > 0 *)
FixSqrt(num, den) == SqrtSearch(0, SqrtTop, num, den)

(* the digits of r/den after the point, one long-division step per digit *)
RECURSIVE FracDigits(_, _, _)
FracDigits(r, den, unit) ==
    IF unit = 1 THEN 0
    ELSE LET u == unit \div 10
         IN  ((r * 10) \div den) * u + FracDigits((r * 10) % den, den, u)

(* num/den in units of 1/Scale, truncated toward zero, den > 0 *)
FixDiv(num, den) ==
    LET a == Abs(num)
    IN  Sgn(num) * ((a \div den) * Scale + FracDigits(a % den, den, Scale))

-----------------------------------------------------------------------------
(* master_data.py, part 2: the moments of one group of marks *)

(* deviations from the group mean, times the group size: n*x - sum *)
Dev(g) == [i \in 1..Len(g) |-> Len(g) * g[i] - SumSeq(g)]
Pow2(d) == [i \in 1..Len(d) |-> d[i] * d[i]]
Pow3(d) == [i \in 1..Len(d) |-> d[i] * d[i] * d[i]]
Pow4(d) == [i \in 1..Len(d) |-> d[i] * d[i] * d[i] * d[i]]

(* 'std': sample standard deviation, ddof = 1 *)
SeriesStd(g) ==
    LET n == Len(g)
        m2 == SumSeq(Pow2(Dev(g)))
    IN  IF n < 2 THEN NaN
        ELSE Num(FixSqrt(m2, n * n * (n - 1)))

(* variant of SeriesSkew: the minimum count is taken to be 2, and a group *)
(* of two gets 0                                                        *)
SeriesSkewMinTwo(g) ==
    LET n == Len(g)
        m2 == SumSeq(Pow2(Dev(g)))
        m3 == SumSeq(Pow3(Dev(g)))
    IN  IF n < 2 THEN NaN
        ELSE IF m2 = 0 \/ n = 2 THEN Num(0)
        ELSE Num(Sgn(m3) * FixSqrt(n * n * (n - 1) * m3 * m3,
                                   (n - 2) * (n - 2) * m2 * m2 * m2))

(* pd.Series.skew: count * sqrt(count-1) / (count-2) * m3 / m2^1.5 *)
SeriesSkew(g) ==
    LET n == Len(g)
        m2 == SumSeq(Pow2(Dev(g)))
        m3 == SumSeq(Pow3(Dev(g)))
    IN  IF n < 3 THEN NaN
        ELSE IF m2 = 0 THEN Num(0)
        ELSE Num(Sgn(m3) * FixSqrt(n * n * (n - 1) * m3 * m3,
                                   (n - 2) * (n - 2) * m2 * m2 * m2))

(* pd.Series.kurt: count(count+1)(count-1) m4 / ((count-2)(count-3) m2^2) *)
(*                 - 3 (count-1)^2 / ((count-2)(count-3))                 *)
SeriesKurt(g) ==
    LET n == Len(g)
        m2 == SumSeq(Pow2(Dev(g)))
        m4 == SumSeq(Pow4(Dev(g)))
    IN  IF n < 4 THEN NaN
        ELSE IF m2 = 0 THEN Num(0)
        ELSE Num(FixDiv(n * (n + 1) * (n - 1) * m4
                           - 3 * (n - 1) * (n - 1) * m2 * m2,
                        (n - 2) * (n - 3) * m2 * m2))

(* .round(d): to the nearest multiple of 10^-d, halves to even *)
RoundCell(c, d) ==
    IF ~IsNum(c) THEN c
    ELSE LET unit == Scale \div (10 ^ d)
             a == Abs(c.v)
             q == a \div unit
             r == a % unit
             up == (2 * r > unit) \/ (2 * r = unit /\ q % 2 = 1)
         IN  Num(Sgn(c.v) * unit * (IF up THEN q + 1 ELSE q))

(* digits kept by the rounding "for better readability" *)
MomentDecimals == 3

(* the marks of one center, in frame order *)
RECURSIVE Ascending(_)
Ascending(s) ==
    IF s = {} THEN <<>>
    ELSE LET m == CHOOSE x \in s : \A y \in s : x <= y
         IN  <<m>> \o Ascending(s \ {m})

GroupOf(marks, cid) ==
    LET idx == Ascending({i \in 1..Len(marks) : marks[i].center_id = cid})
    IN  [j \in 1..Len(idx) |-> marks[idx[j]].marks]

RoundMoment(c) == RoundCell(c, MomentDecimals)

(* df_marks.groupby('center_id')['marks'].agg(...).reset_index(), rounded *)
AggregateFrame(marks) ==
    LET keys == Ascending({marks[i].center_id : i \in 1..Len(marks)})
    IN  [j \in 1..Len(keys) |->
            LET g == GroupOf(marks, keys[j])
            IN  [center_id |-> keys[j],
                 Center_Std_Dev |-> RoundMoment(SeriesStd(g)),
                 Center_Skewness |-> RoundMoment(SeriesSkew(g)),
                 Center_Kurtosis |-> RoundMoment(SeriesKurt(g))]]

-----------------------------------------------------------------------------
(* master_data.py, part 3: ratio features, merge, master file *)

(* a / b on two integer columns: x/0 is inf, 0/0 is NaN, no exception *)
ColDiv(a, b) ==
    IF b = 0 THEN (IF a = 0 THEN NaN ELSE Inf)
    ELSE Num(FixDiv(a, b))

(* a - b on two float columns *)
ColSub(a, b) ==
    IF IsNum(a) /\ IsNum(b) THEN Num(a.v - b.v) ELSE NaN

(* the four inequality metrics added to a row of the statistics sheet *)
WithRatios(r) ==
    r @@ [Ultra_High_Score_Ratio |-> ColDiv(r.above_700_marks, r.total_students),
          High_Score_Ratio |->
              ColDiv(r.above_600_marks + r.above_700_marks, r.total_students),
          Center_v_National_Gap |->
              ColSub(r.center_average_marks, r.national_average_marks),
          Center_v_State_Gap |->
              ColSub(r.center_average_marks, r.state_average_marks)]

MomentsOf(a) ==
    [Center_Std_Dev |-> a.Center_Std_Dev,
     Center_Skewness |-> a.Center_Skewness,
     Center_Kurtosis |-> a.Center_Kurtosis]

NoMoments ==
    [Center_Std_Dev |-> NaN, Center_Skewness |-> NaN, Center_Kurtosis |-> NaN]

(* variant of MergeRow: how='inner', a left row without match is dropped *)
MergeRowInner(l, right) ==
    LET hits == Ascending({j \in 1..Len(right) : right[j].center_id = l.center_id})
    IN  [j \in 1..Len(hits) |-> l @@ MomentsOf(right[hits[j]])]

(* the rows one left row contributes to merge(on='center_id', how='left'): *)
(* one per matching right row, or one with empty moments when none matches *)
MergeRow(l, right) ==
    LET hits == Ascending({j \in 1..Len(right) : right[j].center_id = l.center_id})
    IN  IF hits = <<>> THEN <<l @@ NoMoments>>
        ELSE [j \in 1..Len(hits) |-> l @@ MomentsOf(right[hits[j]])]

RECURSIVE MergeLeft(_, _)
MergeLeft(left, right) ==
    IF left = <<>> THEN <<>>
    ELSE MergeRow(Head(left), right) \o MergeLeft(Tail(left), right)

(* rows drawn by .sample(3) in the final check *)
SampleSize == 3

(* text of a CSV field *)
EmptyText == [t |-> "empty", neg |-> FALSE, int |-> 0, frac |-> 0]
InfText == [t |-> "inf", neg |-> FALSE, int |-> 0, frac |-> 0]

(* to_csv of a float cell: NaN is the empty field, else the decimal digits *)
FloatText(c) ==
    IF IsNaN(c) THEN EmptyText
    ELSE IF IsInf(c) THEN InfText
    ELSE [t |-> "float", neg |-> c.v < 0,
          int |-> Abs(c.v) \div Scale, frac |-> Abs(c.v) % Scale]

(* to_csv of an integer *)
IntText(i) == [t |-> "int", neg |-> i < 0, int |-> Abs(i), frac |-> 0]

(* read_csv of a numeric field into a float cell *)
ParseFloat(x) ==
    IF x.t = "empty" THEN NaN
    ELSE IF x.t = "inf" THEN Inf
    ELSE Num((IF x.neg THEN -1 ELSE 1) * (x.int * Scale + x.frac))

(* read_csv of a field of an all-integer column *)
ParseInt(x) == (IF x.neg THEN -1 ELSE 1) * x.int

MasterText(r) ==
    [center_id |-> IntText(r.center_id),
     center_name |-> r.center_name,
     state |-> r.state,
     total_students |-> IntText(r.total_students),
     above_600_marks |-> IntText(r.above_600_marks),
     above_700_marks |-> IntText(r.above_700_marks),
     center_average_marks |-> FloatText(r.center_average_marks),
     state_average_marks |-> FloatText(r.state_average_marks),
     national_average_marks |-> FloatText(r.national_average_marks),
     Ultra_High_Score_Ratio |-> FloatText(r.Ultra_High_Score_Ratio),
     High_Score_Ratio |-> FloatText(r.High_Score_Ratio),
     Center_v_National_Gap |-> FloatText(r.Center_v_National_Gap),
     Center_v_State_Gap |-> FloatText(r.Center_v_State_Gap),
     Center_Std_Dev |-> FloatText(r.Center_Std_Dev),
     Center_Skewness |-> FloatText(r.Center_Skewness),
     Center_Kurtosis |-> FloatText(r.Center_Kurtosis)]

MasterParse(x) ==
    [center_id |-> ParseInt(x.center_id),
     center_name |-> x.center_name,
     state |-> x.state,
     total_students |-> ParseInt(x.total_students),
     above_600_marks |-> ParseInt(x.above_600_marks),
     above_700_marks |-> ParseInt(x.above_700_marks),
     center_average_marks |-> ParseFloat(x.center_average_marks),
     state_average_marks |-> ParseFloat(x.state_average_marks),
     national_average_marks |-> ParseFloat(x.national_average_marks),
     Ultra_High_Score_Ratio |-> ParseFloat(x.Ultra_High_Score_Ratio),
     High_Score_Ratio |-> ParseFloat(x.High_Score_Ratio),
     Center_v_National_Gap |-> ParseFloat(x.Center_v_National_Gap),
     Center_v_State_Gap |-> ParseFloat(x.Center_v_State_Gap),
     Center_Std_Dev |-> ParseFloat(x.Center_Std_Dev),
     Center_Skewness |-> ParseFloat(x.Center_Skewness),
     Center_Kurtosis |-> ParseFloat(x.Center_Kurtosis)]


-----------------------------------------------------------------------------
(* anomaly_detection.py, sections 2 and 3: encoding and scaling *)

features == <<"Center_v_National_Gap", "Center_Skewness", "Center_Kurtosis",
              "Ultra_High_Score_Ratio", "total_students">>

(* the states of the model, in sorted order, and their indicator columns *)
StateOrder == <<"AP", "BR">>
DummyName == [AP |-> "state_AP", BR |-> "state_BR"]

(* the categories present in the frame, sorted *)
Categories(frame) ==
    LET present(c) == \E i \in 1..Len(frame) : frame[i].state = c
    IN  SelectSeq(StateOrder, present)

(* columns of pd.get_dummies(..., columns=['state'], drop_first=True) *)
DummyColumns(frame) ==
    LET cats == Categories(frame)
    IN  IF cats = <<>> THEN <<>>
        ELSE [j \in 1..(Len(cats) - 1) |-> DummyName[cats[j + 1]]]

RangeOf(s) == {s[i] : i \in 1..Len(s)}

(* one row of df_ml: the feature cells and the state indicators *)
EncodeRow(r, dummies) ==
    [c \in RangeOf(features) \cup RangeOf(dummies) |->
        IF c = "total_students" THEN Num(r.total_students * Scale)
        ELSE IF c \in RangeOf(features) THEN r[c]
        ELSE IF c = DummyName[r.state] THEN Num(Scale) ELSE Num(0)]

GetDummies(frame) ==
    LET dummies == DummyColumns(frame)
    IN  [i \in 1..Len(frame) |-> EncodeRow(frame[i], dummies)]

(* df_ml.drop(columns=['total_students']).columns.tolist() *)
DropColumn(cols, name) ==
    LET keep(c) == c # name
    IN  SelectSeq(cols, keep)

(* variant of ScaledColumns: total_students is not dropped *)
ScaledColumnsKeepTotal(frame) == features \o DummyColumns(frame)

ScaledColumns(frame) == DropColumn(features \o DummyColumns(frame), "total_students")

(* StandardScaler.fit on one column: NaN cells are left out of the *)
(* statistics; a column of zero variance gets scale 1               *)
ColumnFit(ml, c) ==
    LET valid == SelectSeq([i \in 1..Len(ml) |-> ml[i][c]], IsNum)
        vals == [i \in 1..Len(valid) |-> valid[i].v]
    IN  [cnt |-> Len(vals),
         sum |-> SumSeq(vals),
         zero_var |-> \A i, j \in 1..Len(vals) : vals[i] = vals[j]]

(* StandardScaler.transform on one cell: (x - mean_) / scale_. The cell  *)
(* keeps the exact numerator cnt*x - sum; z = dev / (cnt * scale_) with  *)
(* scale_ = 1 when unit, else the standard deviation of the column       *)
ScaledNaN == [k |-> "nan", dev |-> 0, cnt |-> 0, unit |-> FALSE]
ScaleCell(x, fit) ==
    IF IsNaN(x) THEN ScaledNaN
    ELSE [k |-> "z", dev |-> fit.cnt * x.v - fit.sum, cnt |-> fit.cnt,
          unit |-> fit.zero_var]

HasInf(ml, cols) ==
    \E i \in 1..Len(ml) : \E j \in 1..Len(cols) : IsInf(ml[i][cols[j]])

(* scaler.fit_transform(df_ml[X_features]): rows of cells in column order *)
FitTransform(ml, cols) ==
    LET fit == [j \in 1..Len(cols) |-> ColumnFit(ml, cols[j])]
    IN  [i \in 1..Len(ml) |->
            [j \in 1..Len(cols) |-> ScaleCell(ml[i][cols[j]], fit[j])]]

HasNaN(X) ==
    \E i \in 1..Len(X) : \E j \in 1..Len(X[i]) : X[i][j].k = "nan"

-----------------------------------------------------------------------------
(* anomaly_detection.py, section 4: the isolation forest *)

(* contamination=0.015, in thousandths *)
ContaminationPerMille == 15
Thousand == 10 * 10 * 10

(* values score_samples can take, in units of 1/Scale *)
ScoreValues == {-6000, -5000}

RECURSIVE InsertInt(_, _)
InsertInt(x, s) ==
    IF s = <<>> THEN <<x>>
    ELSE IF x < Head(s) THEN <<x>> \o s
    ELSE <<Head(s)>> \o InsertInt(x, Tail(s))

RECURSIVE SortInts(_)
SortInts(s) ==
    IF s = <<>> THEN <<>>
    ELSE InsertInt(s[Len(s)], SortInts(SubSeq(s, 1, Len(s) - 1)))

(* np.percentile(scores, 100 * contamination), linear interpolation *)
Percentile(scores) ==
    LET srt == SortInts(scores)
        h == (Len(scores) - 1) * ContaminationPerMille
        lo == h \div Thousand
        rem == h % Thousand
    IN  IF rem = 0 THEN srt[lo + 1]
        ELSE srt[lo + 1] + (rem * (srt[lo + 2] - srt[lo + 1])) \div Thousand

(* model.decision_function: score_samples(X) - offset_ *)
DecisionFunction(m, x) == m.score[x] - m.offset_

(* model.predict: -1 where decision_function < 0, else 1 *)
PredictFlag(d) == IF d < 0 THEN -1 ELSE 1
Predict(m, x) == PredictFlag(DecisionFunction(m, x))

(* the forests fit(X) can return: score_samples is a function of the row, *)
(* the trees are random; offset_ is the contamination percentile          *)
Forests(X) ==
    {[score |-> f, offset_ |-> Percentile([i \in 1..Len(X) |-> f[X[i]]])] :
        f \in [RangeOf(X) -> ScoreValues]}

-----------------------------------------------------------------------------
(* anomaly_detection.py, section 5, and app.py: results and reports *)

(* rows shown by the printed report and by the dashboard table *)
ReportHead == 10
DashHead == 50
(* digits of the printed report *)
ReportDecimals == 2

AnomalyType(flag) == IF flag = -1 THEN "Anomalous Center" ELSE "Normal Center"

RECURSIVE InsertRow(_, _)
InsertRow(x, s) ==
    IF s = <<>> THEN <<x>>
    ELSE IF x.Anomaly_Score.v < Head(s).Anomaly_Score.v THEN <<x>> \o s
    ELSE <<Head(s)>> \o InsertRow(x, Tail(s))

(* sort_values(by='Anomaly_Score', ascending=True) *)
RECURSIVE SortByScore(_)
SortByScore(s) ==
    IF s = <<>> THEN <<>>
    ELSE InsertRow(s[Len(s)], SortByScore(SubSeq(s, 1, Len(s) - 1)))

IsFlagged(r) == r.Anomaly_Flag = -1

(* variant of FlaggedSorted: the sort is left out *)
FlaggedUnsorted(frame) == SelectSeq(frame, IsFlagged)

(* df[df['Anomaly_Flag'] == -1].sort_values(by='Anomaly_Score') *)
FlaggedSorted(frame) == SortByScore(SelectSeq(frame, IsFlagged))

(* .head(n) *)
HeadRows(s, n) == SubSeq(s, 1, IF Len(s) < n THEN Len(s) ELSE n)

(* the columns of the two reports (city is a label, left out) *)
ReportColumns(r) ==
    [state |-> r.state,
     center_name |-> r.center_name,
     Center_v_National_Gap |-> r.Center_v_National_Gap,
     Ultra_High_Score_Ratio |-> r.Ultra_High_Score_Ratio,
     Center_Skewness |-> r.Center_Skewness,
     Anomaly_Score |-> r.Anomaly_Score]

RoundReport(r) ==
    [r EXCEPT !.Center_v_National_Gap = RoundCell(@, ReportDecimals),
              !.Ultra_High_Score_Ratio = RoundCell(@, ReportDecimals),
              !.Center_Skewness = RoundCell(@, ReportDecimals),
              !.Anomaly_Score = RoundCell(@, ReportDecimals)]

(* df_anomalies[[...]].head(10).round(2) *)
PrintedReport(anomalies) ==
    LET top == HeadRows(anomalies, ReportHead)
    IN  [i \in 1..Len(top) |-> RoundReport(ReportColumns(top[i]))]

(* df_anomalies[table_cols].head(50) *)
DashboardTable(anomalies) ==
    LET top == HeadRows(anomalies, DashHead)
    IN  [i \in 1..Len(top) |-> ReportColumns(top[i])]

ResultText(r) ==
    MasterText(r) @@ [Anomaly_Flag |-> IntText(r.Anomaly_Flag),
                      Anomaly_Score |-> FloatText(r.Anomaly_Score),
                      Anomaly_Type |-> r.Anomaly_Type]

ResultParse(x) ==
    MasterParse(x) @@ [Anomaly_Flag |-> ParseInt(x.Anomaly_Flag),
                       Anomaly_Score |-> ParseFloat(x.Anomaly_Score),
                       Anomaly_Type |-> x.Anomaly_Type]

(* the table df_results.to_csv writes *)
SavedResults(frame) == [i \in DOMAIN frame |-> ResultText(frame[i])]

-----------------------------------------------------------------------------
(* Inputs *)

Fix(i) == Num(i * Scale)

StatsRow(i, st, total, above, avg) ==
    [center_id |-> i, center_name |-> i, state |-> st,
     total_students |-> total,
     above_600_marks |-> 0, above_700_marks |-> above,
     center_average_marks |-> Fix(avg),
     state_average_marks |-> Fix(1),
     national_average_marks |-> Fix(1)]

(* what a center of the sheet can be: state, total_students,  *)
(* above_700_marks, center_average_marks                      *)
Profiles ==
    { <<"AP", 2, 1, 1>>, <<"AP", 4, 0, 2>>, <<"AP", 4, 0, 1>>,
      <<"BR", 2, 1, 2>>, <<"BR", 4, 0, 1>>,
      <<"AP", 0, 0, 1>>, <<"BR", 0, 1, 2>> }

(* statistics sheets of n centers, center_id 1..n *)
StatsSheets(n) ==
    {[i \in 1..n |-> StatsRow(i, p[i][1], p[i][2], p[i][3], p[i][4])] :
        p \in [1..n -> Profiles]}

RECURSIVE Records(_, _)
Records(cid, g) ==
    IF g = <<>> THEN <<>>
    ELSE <<[center_id |-> cid, marks |-> Head(g)]>> \o Records(cid, Tail(g))

(* the records of centers 1..n, center i with the marks groups[i] *)
RECURSIVE FrameOf(_, _)
FrameOf(groups, n) ==
    IF n = 0 THEN <<>>
    ELSE FrameOf(groups, n - 1) \o Records(n, groups[n])

GroupShapes == << <<0, 0, 1, 3>>, <<0, 1, 1, 3>>, <<0, 1, 3, 3>> >>
VariedGroups == [i \in 1..MaxCenters |-> GroupShapes[((i - 1) % Len(GroupShapes)) + 1]]
EqualGroups == [i \in 1..MaxCenters |-> GroupShapes[1]]
Unlisted == MaxCenters + 1

(* frames of student records for the pipeline: different groups; equal  *)
(* groups and records of a center no sheet lists; a group of two; a     *)
(* center without records                                               *)
MarksFrames ==
    { FrameOf(VariedGroups, MaxCenters),
      FrameOf(EqualGroups, MaxCenters) \o Records(Unlisted, <<0, 1>>),
      FrameOf([VariedGroups EXCEPT ![2] = <<0, 1>>], MaxCenters),
      FrameOf([VariedGroups EXCEPT ![MaxCenters] = <<>>], MaxCenters)
          \o Records(Unlisted, GroupShapes[3]) }

MarkValues == {0, 1}
StudentRecords == [center_id : {1, 2}, marks : MarkValues]

(* all frames of at most n student records *)
FramesUpTo(n) == UNION {[1..k -> StudentRecords] : k \in 0..n}

(* values of decision_function in a predicted table *)
DecisionValues == {-1040, -1010, 500}

(* a row of df_results after predict, with decision value d *)
PredictedRow(i, d) ==
    WithRatios(StatsRow(i, "AP", 2, 1, 1))
        @@ [Center_Std_Dev |-> Fix(1), Center_Skewness |-> Fix(0),
            Center_Kurtosis |-> Fix(0),
            Anomaly_Flag |-> PredictFlag(d), Anomaly_Score |-> Num(d)]

(* predicted tables of n rows: a block of decision values, repeated *)
PredictedTables(n) ==
    {[i \in 1..n |-> PredictedRow(i, block[((i - 1) % Len(block)) + 1])] :
        block \in UNION {[1..k -> DecisionValues] : k \in 1..MaxBlock}}

Unset == <<>>

-----------------------------------------------------------------------------
(* The scripts *)

(* master_data.py: aggregate, merge, check, save *)
MasterData ==
    /\ pc = "start"
    /\ LET agg == AggregateFrame(df_marks)
           merged == MergeLeft([i \in DOMAIN df_center_stats |-> WithRatios(df_center_stats[i])], agg)
       IN  /\ df_marks_agg' = agg
           /\ df_master' = merged
           /\ IF Len(merged) < SampleSize
              THEN /\ pc' = "failed"
                   /\ err' = "ValueError: sample larger than population"
                   /\ UNCHANGED master_csv
              ELSE /\ pc' = "master_saved"
                   /\ err' = ""
                   /\ master_csv' = [i \in DOMAIN merged |-> MasterText(merged[i])]
    /\ UNCHANGED <<df_marks, df_center_stats, df_results, df_ml, X_features,
                   X_scaled, model, df_anomalies, printed, ml_csv, dash_table>>

(* anomaly_detection.py, sections 1-3: load, encode, scale *)
EncodeAndScale ==
    /\ pc = "master_saved"
    /\ LET frame == [i \in DOMAIN master_csv |-> MasterParse(master_csv[i])]
           ml == GetDummies(frame)
           cols == ScaledColumns(frame)
       IN  /\ df_results' = frame
           /\ df_ml' = ml
           /\ X_features' = cols
           /\ IF HasInf(ml, cols)
              THEN /\ pc' = "failed"
                   /\ err' = "ValueError: Input X contains infinity"
                   /\ UNCHANGED X_scaled
              ELSE /\ pc' = "scaled"
                   /\ err' = ""
                   /\ X_scaled' = FitTransform(ml, cols)
    /\ UNCHANGED <<df_marks, df_center_stats, df_marks_agg, df_master,
                   master_csv, model, df_anomalies, printed, ml_csv, dash_table>>

(* anomaly_detection.py, section 4: fit, predict, decision_function *)
FitPredict ==
    /\ pc = "scaled"
    /\ IF HasNaN(X_scaled)
       THEN /\ pc' = "failed"
            /\ err' = "ValueError: Input X contains NaN"
            /\ UNCHANGED <<model, df_results>>
       ELSE \E m \in Forests(X_scaled) :
                /\ model' = m
                /\ df_results' =
                       [i \in 1..Len(df_results) |->
                           df_results[i] @@
                               [Anomaly_Flag |-> Predict(m, X_scaled[i]),
                                Anomaly_Score |->
                                    Num(DecisionFunction(m, X_scaled[i]))]]
                /\ pc' = "predicted"
                /\ err' = ""
    /\ UNCHANGED <<df_marks, df_center_stats, df_marks_agg, df_master,
                   master_csv, df_ml, X_features, X_scaled, df_anomalies,
                   printed, ml_csv, dash_table>>

(* anomaly_detection.py, section 5: type column, report, save *)
Report ==
    /\ pc = "predicted"
    /\ LET typed == [i \in 1..Len(df_results) |->
                        df_results[i] @@
                            [Anomaly_Type |-> AnomalyType(df_results[i].Anomaly_Flag)]]
       IN  /\ df_results' = typed
           /\ df_anomalies' = FlaggedSorted(typed)
           /\ printed' = PrintedReport(FlaggedSorted(typed))
           /\ ml_csv' = SavedResults(typed)
    /\ pc' = "ml_saved"
    /\ UNCHANGED <<err, df_marks, df_center_stats, df_marks_agg, df_master,
                   master_csv, df_ml, X_features, X_scaled, model, dash_table>>

(* app.py: load_data and page_anomaly_detection *)
Dashboard ==
    /\ pc = "ml_saved"
    /\ dash_table' = DashboardTable(FlaggedSorted([i \in DOMAIN ml_csv |-> ResultParse(ml_csv[i])]))
    /\ pc' = "shown"
    /\ UNCHANGED <<err, df_marks, df_center_stats, df_marks_agg, df_master,
                   master_csv, df_results, df_ml, X_features, X_scaled, model,
                   df_anomalies, printed, ml_csv>>

-----------------------------------------------------------------------------
(* Specifications *)

Blank ==
    /\ err = ""
    /\ df_marks_agg = Unset /\ df_master = Unset /\ master_csv = Unset
    /\ df_results = Unset /\ df_ml = Unset /\ X_features = Unset
    /\ X_scaled = Unset /\ model = Unset /\ df_anomalies = Unset
    /\ printed = Unset /\ ml_csv = Unset /\ dash_table = Unset

(* the whole pipeline on up to MaxCenters centers *)
Init ==
    /\ pc = "start"
    /\ df_center_stats \in UNION {StatsSheets(n) : n \in 1..MaxCenters}
    /\ df_marks \in MarksFrames
    /\ Blank

Next == MasterData \/ EncodeAndScale \/ FitPredict \/ Report \/ Dashboard

Spec == Init /\ [][Next]_vars

(* master_data.py alone, on every frame of at most MaxStudents records *)
AggSheet == [i \in 1..SampleSize |-> StatsRow(i, "AP", 2, 1, 1)]

InitAgg ==
    /\ pc = "start"
    /\ df_center_stats = AggSheet
    /\ df_marks \in FramesUpTo(MaxStudents)
    /\ Blank

NextAgg == MasterData

SpecAgg == InitAgg /\ [][NextAgg]_vars

(* the report and the dashboard, from a predicted table of up to MaxRows rows *)
InitReport ==
    /\ pc = "predicted"
    /\ err = ""
    /\ df_results \in UNION {PredictedTables(n) : n \in 1..MaxRows}
    /\ df_marks = Unset /\ df_center_stats = Unset
    /\ df_marks_agg = Unset /\ df_master = Unset /\ master_csv = Unset
    /\ df_ml = Unset /\ X_features = Unset
    /\ X_scaled = Unset /\ model = Unset /\ df_anomalies = Unset
    /\ printed = Unset /\ ml_csv = Unset /\ dash_table = Unset

NextReport == Report \/ Dashboard

SpecReport == InitReport /\ [][NextReport]_vars

-----------------------------------------------------------------------------
(* Properties *)

Scored == pc \in {"predicted", "ml_saved", "shown"}
Rows(frame) == 1..Len(frame)
CeilDiv(a, b) == (a + b - 1) \div b
Flagged(frame) == {i \in Rows(frame) : frame[i].Anomaly_Flag = -1}
Identical(g) == \A x, y \in 1..Len(g) : g[x] = g[y]
MissingMoments(r) ==
    IsNaN(r.Center_Std_Dev) \/ IsNaN(r.Center_Skewness) \/ IsNaN(r.Center_Kurtosis)

(* C1: once the forest has predicted, the number of centers flagged as   *)
(* Anomaly is exactly ceil(contamination * n).                           *)
C1_FlagCountIsCeiling ==
    Scored =>
        Cardinality(Flagged(df_results))
            = CeilDiv(ContaminationPerMille * Len(df_results), Thousand)

(* C2: after aggregation every center with records has one row, whose    *)
(* Center_Std_Dev is missing iff its group has fewer than 2 marks, whose *)
(* Center_Skewness is missing iff fewer than 3 and whose Center_Kurtosis *)
(* is missing iff fewer than 4; the row is what the group alone gives.   *)
C2_MissingBySize ==
    pc # "start" =>
        /\ {df_marks_agg[j].center_id : j \in Rows(df_marks_agg)}
               = {df_marks[i].center_id : i \in Rows(df_marks)}
        /\ \A j, k \in Rows(df_marks_agg) :
               df_marks_agg[j].center_id = df_marks_agg[k].center_id => j = k
        /\ \A j \in Rows(df_marks_agg) :
               LET a == df_marks_agg[j]
                   g == GroupOf(df_marks, a.center_id)
               IN  /\ IsNaN(a.Center_Std_Dev) <=> Len(g) < 2
                   /\ IsNaN(a.Center_Skewness) <=> Len(g) < 3
                   /\ IsNaN(a.Center_Kurtosis) <=> Len(g) < 4
                   /\ <<a>> = AggregateFrame(Records(a.center_id, g))

(* a group of two beside a group of four: the first has its deviation    *)
(* and no skewness or kurtosis, the second has all three                 *)
C2_Witness ==
    /\ pc = "master_saved"
    /\ \E j, k \in Rows(df_marks_agg) :
           /\ Len(GroupOf(df_marks, df_marks_agg[j].center_id)) = 2
           /\ IsNum(df_marks_agg[j].Center_Std_Dev)
           /\ IsNaN(df_marks_agg[j].Center_Skewness)
           /\ IsNaN(df_marks_agg[j].Center_Kurtosis)
           /\ Len(GroupOf(df_marks, df_marks_agg[k].center_id)) = 4
           /\ ~MissingMoments(df_marks_agg[k])

(* C3: a group of identical marks has its skewness and its kurtosis      *)
(* reported as missing, whatever its size.                               *)
C3_ZeroVarianceMissing ==
    pc # "start" =>
        \A j \in Rows(df_marks_agg) :
            Identical(GroupOf(df_marks, df_marks_agg[j].center_id)) =>
                /\ IsNaN(df_marks_agg[j].Center_Skewness)
                /\ IsNaN(df_marks_agg[j].Center_Kurtosis)

(* C4: for a center with total_students = 0 the cell of                  *)
(* Ultra_High_Score_Ratio handed to the scaler is neither infinite nor   *)
(* NaN, and no center ends with a NaN Anomaly_Score.                     *)
C4_ZeroStudentsExcluded ==
    /\ \A i \in Rows(df_ml) :
           df_results[i].total_students = 0 =>
               \A j \in Rows(X_features) :
                   X_features[j] = "Ultra_High_Score_Ratio" =>
                       IsNum(df_ml[i][X_features[j]])
    /\ Scored => \A i \in Rows(df_results) : IsNum(df_results[i].Anomaly_Score)

(* C5: a run whose only irregularity is a center with missing moment     *)
(* features does not end in an error.                                    *)
C5_MissingMomentsScored ==
    ( /\ Len(df_master) >= SampleSize
      /\ \A i \in Rows(df_master) : df_master[i].total_students > 0
      /\ \E i \in Rows(df_master) : MissingMoments(df_master[i]) )
        => pc # "failed"

(* C6: the merged frame holds every row of the statistics sheet exactly  *)
(* once, in order, and so does the written result table, where each row  *)
(* carries the score and the flag the forest gives to the scaled feature *)
(* vector of the master row with the same center_id.                     *)
C6_EveryCenterOnce ==
    /\ pc # "start" =>
           /\ Len(df_master) = Len(df_center_stats)
           /\ \A i \in Rows(df_master) :
                  /\ df_master[i].center_id = df_center_stats[i].center_id
                  /\ \A f \in DOMAIN df_center_stats[i] :
                         df_master[i][f] = df_center_stats[i][f]
    /\ pc \in {"ml_saved", "shown"} =>
           /\ Len(ml_csv) = Len(df_center_stats)
           /\ X_scaled = FitTransform(GetDummies([i \in DOMAIN master_csv |-> MasterParse(master_csv[i])]),
                                      X_features)
           /\ \A i \in Rows(ml_csv) :
                  LET r == ResultParse(ml_csv[i])
                  IN  /\ r.center_id = df_center_stats[i].center_id
                      /\ r.center_id = ParseInt(master_csv[i].center_id)
                      /\ r.Anomaly_Score = Num(DecisionFunction(model, X_scaled[i]))
                      /\ r.Anomaly_Flag = Predict(model, X_scaled[i])

(* a finished run on a frame that holds records of a center the sheet    *)
(* does not list                                                         *)
C6_Witness ==
    /\ pc = "shown"
    /\ \E k \in Rows(df_marks) :
           \A i \in Rows(df_center_stats) :
               df_marks[k].center_id # df_center_stats[i].center_id

(* the score of the center a report row names *)
ScoreOf(name) ==
    df_results[CHOOSE i \in Rows(df_results) : df_results[i].center_name = name]
        .Anomaly_Score.v

Least(a, b) == IF a < b THEN a ELSE b

(* a report of at most n rows: flagged centers only, none twice, as many *)
(* as there are up to n, scores non-decreasing, and every center that is *)
(* not in rows 1..k scores no lower than the center of row k             *)
Ranked(report, n) ==
    /\ Len(report) = Least(n, Cardinality(Flagged(df_results)))
    /\ \A k \in Rows(report) :
           \E i \in Flagged(df_results) :
               df_results[i].center_name = report[k].center_name
    /\ \A k, l \in Rows(report) :
           k < l => /\ report[k].center_name # report[l].center_name
                    /\ report[k].Anomaly_Score.v <= report[l].Anomaly_Score.v
    /\ \A k \in Rows(report) : \A i \in Rows(df_results) :
           (\A m \in 1..k : report[m].center_name # df_results[i].center_name)
               => ScoreOf(report[k].center_name) <= df_results[i].Anomaly_Score.v

(* C7: the printed report (10 rows) and the dashboard table (50 rows)    *)
(* list only flagged centers, in non-decreasing order of Anomaly_Score,  *)
(* and no center outside the first k rows is more anomalous than row k.  *)
C7_RankedReport ==
    /\ pc \in {"ml_saved", "shown"} => Ranked(printed, ReportHead)
    /\ pc = "shown" => Ranked(dash_table, DashHead)

(* more flagged centers than the printed report shows, a center that is  *)
(* not flagged, and two printed rows whose centers differ in score       *)
C7_Witness ==
    /\ pc = "shown"
    /\ Cardinality(Flagged(df_results)) > ReportHead
    /\ Flagged(df_results) # Rows(df_results)
    /\ \E k, l \in Rows(printed) :
           ScoreOf(printed[k].center_name) < ScoreOf(printed[l].center_name)

(* df_ml with every total_students cell replaced *)
TotalsErased(ml) ==
    [i \in Rows(ml) |-> [ml[i] EXCEPT !["total_students"] = Num(0)]]

(* C8: total_students is no column of the scaled matrix, the matrix is   *)
(* the same whatever the total_students cells hold, and the result table *)
(* carries the total_students of the sheet unchanged.                    *)
C8_TotalStudentsContextOnly ==
    /\ \A j \in Rows(X_features) : X_features[j] # "total_students"
    /\ pc \in {"scaled", "predicted", "ml_saved", "shown"} =>
           /\ \A i \in Rows(X_scaled) : Len(X_scaled[i]) = Len(X_features)
           /\ X_scaled = FitTransform(TotalsErased(df_ml), X_features)
    /\ pc \in {"ml_saved", "shown"} =>
           \A i \in Rows(ml_csv) :
               ResultParse(ml_csv[i]).total_students
                   = df_center_stats[i].total_students

(* a finished run on centers of different sizes *)
C8_Witness ==
    /\ pc = "shown"
    /\ \E i, j \in Rows(df_center_stats) :
           df_center_stats[i].total_students # df_center_stats[j].total_students

NumericFeatures == RangeOf(features) \ {"total_students"}

(* C9: no run produces scores from a matrix that holds a numeric feature *)
(* column of zero variance.                                              *)
C9_DegenerateColumnRejected ==
    Scored =>
        \A j \in Rows(X_features) :
            X_features[j] \in NumericFeatures =>
                ~ColumnFit(df_ml, X_features[j]).zero_var

(* C10: the Center_Skewness and Center_Kurtosis the anomaly stage scales *)
(* are the full-precision values of the aggregation.                     *)
C10_FullPrecisionScored ==
    \A i \in Rows(df_ml) :
        LET g == GroupOf(df_marks, df_results[i].center_id)
        IN  /\ df_ml[i]["Center_Skewness"] = SeriesSkew(g)
            /\ df_ml[i]["Center_Kurtosis"] = SeriesKurt(g)

====
